---- MODULE Spec2Model ----
(***************************************************************************)
(* Model of health-to-pdf.ts: the command-line shim that parses the        *)
(* argument list, validates it, picks a default output filename and calls  *)
(* one of three exporters.                                                 *)
(*                                                                         *)
(* One behaviour is one process run.  The argument list is drawn in Init;  *)
(* the answers of the outside world (existsSync, the awaited exporter) are *)
(* nondeterministic choices of the actions that ask for them.              *)
(***************************************************************************)
EXTENDS Integers, Sequences, FiniteSets, TLC

VARIABLES
    args,         \* process.argv.slice(2)
    pc,           \* position of main(): START, PARSE, VALIDATE, DISPATCH, AWAIT, *_EXIT
    i,            \* loop index of the parsing loop (1-based; the code's i + 1)
    options,      \* the Partial<CliOptions> record
    console,      \* what was printed so far, in order (console.log / console.error)
    probes,       \* the existsSync calls made so far: <<[path, result]>>
    calls,        \* the exporter calls made so far: <<[fn, input, output, daily]>>
    roles,        \* how the parsing loop treated each token of args
    exitCode      \* the process exit code, NoExit while running

vars == <<args, pc, i, options, console, probes, calls, roles, exitCode>>

----------------------------------------------------------------------------
(* Bounds and the token alphabet *)

MaxArgs == 4

\* A JavaScript undefined (an option never assigned, or args[j] past the end).
Undef == "<undefined>"

\* No exit code yet: a value outside the range of process exit codes.
NoExit == 0 - 1

\* Tokens the argument list is drawn from: every flag the switch knows, an
\* unknown double-dash flag, the three types, a path and the empty string.
Tokens ==
    { "--type", "--input", "--output", "-o", "--no-daily-table", "--help", "-h",
      "--foo", "heart", "sleep", "medication", "export.xml", "" }

ArgLists == UNION { [1..n -> Tokens] : n \in 0..MaxArgs }

----------------------------------------------------------------------------
(* Pure helpers *)

\* arg.startsWith('--'), tabulated over the alphabet.
StartsWithDashes(tok) ==
    tok \in { "--type", "--input", "--output", "--no-daily-table", "--help", "--foo" }

\* JavaScript truthiness of a string-or-undefined value: !v is true for
\* undefined and for the empty string.
Truthy(v) == v # Undef /\ v # ""

\* args.includes(tok)
Includes(a, tok) == \E k \in 1..Len(a) : a[k] = tok

\* args[j], undefined past the end of the array.
ArgAt(a, j) == IF j \in 1..Len(a) THEN a[j] ELSE Undef

\* Variant: the short form -h is not tested.
HelpOnlyLong(a) == Len(a) = 0 \/ Includes(a, "--help")

\* The early help test of main().
HelpRequested(a) == Len(a) = 0 \/ Includes(a, "--help") \/ Includes(a, "-h")

TypeFlags == { "--type", "-t" }
InputFlags == { "--input", "-i" }
OutputFlags == { "--output", "-o" }
HelpFlags == { "--help", "-h" }
ValueFlags == TypeFlags \cup InputFlags \cup OutputFlags

\* Variant: the first test does not look at options.input.
PositionalOverwrites(opts, arg) ==
    IF ~StartsWithDashes(arg)
    THEN [opts EXCEPT !.input = arg]
    ELSE IF ~Truthy(opts.output) /\ ~StartsWithDashes(arg)
    THEN [opts EXCEPT !.output = arg]
    ELSE opts

\* The default branch of the switch: the legacy positional format.
Positional(opts, arg) ==
    IF ~Truthy(opts.input) /\ ~StartsWithDashes(arg)
    THEN [opts EXCEPT !.input = arg]
    ELSE IF ~Truthy(opts.output) /\ ~StartsWithDashes(arg)
    THEN [opts EXCEPT !.output = arg]
    ELSE opts

\* Variant: the switch case leaves the option alone.
NoDailyTableIgnored(opts) == opts

\* case '--no-daily-table'
NoDailyTable(opts) == [opts EXCEPT !.includeDailyTable = FALSE]

\* One iteration of the parsing loop on token a[j]: the options afterwards.
ParseArg(opts, a, j) ==
    LET arg == a[j] IN
    CASE arg \in TypeFlags -> [opts EXCEPT !.type = ArgAt(a, j + 1)]
      [] arg \in InputFlags -> [opts EXCEPT !.input = ArgAt(a, j + 1)]
      [] arg \in OutputFlags -> [opts EXCEPT !.output = ArgAt(a, j + 1)]
      [] arg = "--no-daily-table" -> NoDailyTable(opts)
      [] arg \in HelpFlags -> [opts EXCEPT !.help = TRUE]
      [] OTHER -> Positional(opts, arg)

\* Variant: the value cases read args[i + 1] without advancing i.
NextIndexNoSkip(a, j) == j + 1

\* The index the loop looks at next: args[++i] in a value case, then i++.
NextIndex(a, j) == IF a[j] \in ValueFlags THEN j + 2 ELSE j + 1

\* How the iteration on a[j] treats that token (read off the switch).
RoleOf(opts, a, j) ==
    LET arg == a[j] IN
    CASE arg \in ValueFlags -> "value-flag"
      [] arg = "--no-daily-table" -> "switch"
      [] arg \in HelpFlags -> "switch"
      [] ~Truthy(opts.input) /\ ~StartsWithDashes(arg) -> "input"
      [] ~Truthy(opts.output) /\ ~StartsWithDashes(arg) -> "output"
      [] OTHER -> "dropped"

\* The roles after the iteration on a[j]: the token's own role, and "value"
\* for the token a value flag consumes.
MarkRoles(r, opts, a, j) ==
    [k \in DOMAIN r |->
        IF k = j THEN RoleOf(opts, a, j)
        ELSE IF k = j + 1 /\ a[j] \in ValueFlags THEN "value"
        ELSE r[k]]

ValidTypes == { "heart", "sleep", "medication" }

\* Variant: the membership test on the type is missing.
ValidationFailureNoTypeCheck(opts) ==
    IF ~Truthy(opts.input) THEN "input-required"
    ELSE IF ~Truthy(opts.type) THEN "type-required"
    ELSE "none"

\* The three checks made before the file system is touched, in order.
ValidationFailure(opts) ==
    IF ~Truthy(opts.input) THEN "input-required"
    ELSE IF ~Truthy(opts.type) THEN "type-required"
    ELSE IF opts.type \notin ValidTypes THEN "type-invalid"
    ELSE "none"

\* Variant: no failure prints usage.
ReportNoUsage(failure) ==
    CASE failure = "input-required" -> << "error: --input is required" >>
      [] failure = "type-required" -> << "error: --type is required" >>
      [] failure = "type-invalid" -> << "error: --type must be one of" >>
      [] failure = "not-found" -> << "error: Input file not found" >>

\* What each validation failure prints, in order.
Report(failure) ==
    CASE failure = "input-required" -> << "error: --input is required", "usage" >>
      [] failure = "type-required" -> << "error: --type is required", "usage" >>
      [] failure = "type-invalid" -> << "error: --type must be one of" >>
      [] failure = "not-found" -> << "error: Input file not found" >>

\* existsSync(path): the file system is outside the program, so either answer
\* is possible for a path; the empty path never exists.
ExistsSync(path) == IF path = "" THEN { FALSE } ELSE BOOLEAN

\* Variant: the sleep entry repeats the heart filename.
typeNamesShared(t) ==
    CASE t = "heart" -> "herzfrequenz-bericht.pdf"
      [] t = "sleep" -> "herzfrequenz-bericht.pdf"
      [] t = "medication" -> "medikation-bericht.pdf"
      [] OTHER -> Undef

\* The typeNames table.
typeNames(t) ==
    CASE t = "heart" -> "herzfrequenz-bericht.pdf"
      [] t = "sleep" -> "schlaf-bericht.pdf"
      [] t = "medication" -> "medikation-bericht.pdf"
      [] OTHER -> Undef

\* Variant: no default is filled in.
NoDefaultOutput(opts) == opts

\* if (!options.output) options.output = typeNames[options.type]
WithDefaultOutput(opts) ==
    IF ~Truthy(opts.output) THEN [opts EXCEPT !.output = typeNames(opts.type)] ELSE opts

\* Variant: the medication case is missing from the switch.
ExporterMissingCase(t) ==
    CASE t = "heart" -> "exportHeartRate"
      [] t = "sleep" -> "exportSleep"
      [] OTHER -> "none"

\* The switch on config.type: the exporter it selects, "none" when no case matches.
Exporter(t) ==
    CASE t = "heart" -> "exportHeartRate"
      [] t = "sleep" -> "exportSleep"
      [] t = "medication" -> "exportMedication"
      [] OTHER -> "none"

\* Variant: input and output are passed in the wrong order.
ExporterCallSwapped(cfg) ==
    [ fn |-> Exporter(cfg.type),
      argv |-> << cfg.output, cfg.input, cfg.includeDailyTable >> ]

\* The call made: the function and its positional arguments.
ExporterCall(cfg) ==
    [ fn |-> Exporter(cfg.type),
      argv |-> << cfg.input, cfg.output, cfg.includeDailyTable >> ]

----------------------------------------------------------------------------
(* The run *)

Init ==
    /\ args \in ArgLists
    /\ pc = "START"
    /\ i = 1
    /\ options = [ type |-> Undef, input |-> Undef, output |-> Undef,
                   includeDailyTable |-> TRUE, help |-> FALSE ]
    /\ console = << >>
    /\ probes = << >>
    /\ calls = << >>
    /\ roles = [k \in 1..Len(args) |-> "unread"]
    /\ exitCode = NoExit

\* if (args.length === 0 || args.includes('--help') || args.includes('-h'))
Start ==
    /\ pc = "START"
    /\ IF HelpRequested(args)
       THEN /\ console' = Append(console, "usage")
            /\ exitCode' = 0
            /\ pc' = "HELP_EXIT"
       ELSE /\ pc' = "PARSE"
            /\ UNCHANGED << console, exitCode >>
    /\ UNCHANGED << args, i, options, probes, calls, roles >>

\* One iteration of for (let i = 0; i < args.length; i++) { switch (arg) ... }
ParseStep ==
    /\ pc = "PARSE"
    /\ i <= Len(args)
    /\ options' = ParseArg(options, args, i)
    /\ roles' = MarkRoles(roles, options, args, i)
    /\ i' = NextIndex(args, i)
    /\ UNCHANGED << args, pc, console, probes, calls, exitCode >>

\* The loop ends; if (options.help) { printUsage(); process.exit(0); }
EndParse ==
    /\ pc = "PARSE"
    /\ i > Len(args)
    /\ IF options.help
       THEN /\ console' = Append(console, "usage")
            /\ exitCode' = 0
            /\ pc' = "HELP_EXIT"
       ELSE /\ pc' = "VALIDATE"
            /\ UNCHANGED << console, exitCode >>
    /\ UNCHANGED << args, i, options, probes, calls, roles >>

\* The required-option checks, the existence check, the default output
\* filename and the status block.
Validate ==
    /\ pc = "VALIDATE"
    /\ LET failure == ValidationFailure(options) IN
       IF failure # "none"
       THEN /\ console' = console \o Report(failure)
            /\ exitCode' = 1
            /\ pc' = "FAILURE_EXIT"
            /\ UNCHANGED << options, probes >>
       ELSE \E found \in ExistsSync(options.input) :
            /\ probes' = Append(probes, [ path |-> options.input, result |-> found ])
            /\ IF ~found
               THEN /\ console' = console \o Report("not-found")
                    /\ exitCode' = 1
                    /\ pc' = "FAILURE_EXIT"
                    /\ UNCHANGED options
               ELSE /\ options' = WithDefaultOutput(options)
                    /\ console' = Append(console, "status")
                    /\ pc' = "DISPATCH"
                    /\ UNCHANGED exitCode
    /\ UNCHANGED << args, i, calls, roles >>

\* switch (config.type) { case ...: await exportX(input, output, includeDailyTable) }
Dispatch ==
    /\ pc = "DISPATCH"
    /\ IF Exporter(options.type) # "none"
       THEN /\ calls' = Append(calls, ExporterCall(options))
            /\ pc' = "AWAIT"
            /\ UNCHANGED << console, exitCode >>
       ELSE /\ console' = Append(console, "success")
            /\ exitCode' = 0
            /\ pc' = "SUCCESS_EXIT"
            /\ UNCHANGED calls
    /\ UNCHANGED << args, i, options, probes, roles >>

\* The awaited exporter resolves: the success lines, then main() returns.
ExporterResolves ==
    /\ pc = "AWAIT"
    /\ console' = Append(console, "success")
    /\ exitCode' = 0
    /\ pc' = "SUCCESS_EXIT"
    /\ UNCHANGED << args, i, options, probes, calls, roles >>

\* The awaited exporter throws: catch (error) { console.error; process.exit(1) }
ExporterThrows ==
    /\ pc = "AWAIT"
    /\ console' = Append(console, "error: exporter")
    /\ exitCode' = 1
    /\ pc' = "FAILURE_EXIT"
    /\ UNCHANGED << args, i, options, probes, calls, roles >>

Next ==
    \/ Start
    \/ ParseStep
    \/ EndParse
    \/ Validate
    \/ Dispatch
    \/ ExporterResolves
    \/ ExporterThrows

Spec == Init /\ [][Next]_vars

----------------------------------------------------------------------------
(* Vocabulary of the properties, stated on the argument list and the        *)
(* observable state rather than through the operators above.                *)

ErrorLines ==
    { "error: --input is required", "error: --type is required",
      "error: --type must be one of", "error: Input file not found",
      "error: exporter" }

HelpTokens == { "--help", "-h" }
ValueTokens == { "--type", "-t", "--input", "-i", "--output", "-o" }
TheTypes == { "heart", "sleep", "medication" }

\* The argument list is empty or holds a help token at some position.
AsksForHelp == Len(args) = 0 \/ \E k \in 1..Len(args) : args[k] \in HelpTokens

\* A value is absent: never given, or given as the empty string.
Absent(v) == v = Undef \/ v = ""

\* The positions a left-to-right scan reads as tokens of their own, when every
\* value token takes the position after it as its value.
RECURSIVE ScanFrom(_, _)
ScanFrom(a, p) ==
    IF p > Len(a) THEN {}
    ELSE {p} \cup ScanFrom(a, IF a[p] \in ValueTokens THEN p + 2 ELSE p + 1)

ReadPositions == ScanFrom(args, 1)

Exited == exitCode # NoExit
ErrorsPrinted == { k \in 1..Len(console) : console[k] \in ErrorLines }

----------------------------------------------------------------------------
(* C1 *)

\* C1: when the argument list is empty or holds --help or -h anywhere (also
\* right after a value flag), the run does nothing but print usage and exit
\* with code 0: at every moment no error was printed, no existence probe was
\* made and no exporter was called, and once the run has left its start it
\* has printed exactly the usage text and exited with code 0.
C1_HelpShortCircuits ==
    AsksForHelp =>
        /\ ErrorsPrinted = {}
        /\ probes = << >>
        /\ calls = << >>
        /\ pc \in { "START", "HELP_EXIT" }
        /\ pc = "START" => console = << >> /\ ~Exited
        /\ pc = "HELP_EXIT" => console = << "usage" >> /\ exitCode = 0

\* A run that exited through help although the help token directly follows a
\* value flag and other flags are present.
C1_Witness ==
    /\ pc = "HELP_EXIT"
    /\ exitCode = 0
    /\ \E k \in 1..(Len(args) - 1) : args[k] \in ValueTokens /\ args[k + 1] \in HelpTokens

----------------------------------------------------------------------------
(* C2 *)

\* C2: whenever an exporter has been called, type is one of heart, sleep,
\* medication, input is a non-empty string that the one existence probe found
\* to exist, and output is a non-empty string; this holds of the options and
\* of the arguments the exporter received.
C2_ValidatedBeforeExport ==
    calls # << >> =>
        /\ options.type \in TheTypes
        /\ ~Absent(options.input)
        /\ probes = << [ path |-> options.input, result |-> TRUE ] >>
        /\ ~Absent(options.output)
        /\ \A k \in 1..Len(calls) :
              /\ ~Absent(calls[k].argv[1])
              /\ ~Absent(calls[k].argv[2])
              /\ calls[k].argv[1] = probes[1].path

\* An exporter was called with the default output filename filled in.
C2_Witness ==
    /\ calls # << >>
    /\ ~ \E k \in 1..Len(args) : args[k] \in { "--output", "-o" }
    /\ options.output \notin Tokens

----------------------------------------------------------------------------
(* C3 *)

\* The exporter that was called resolved / threw.
ExporterCompleted == calls # << >> /\ console # << >> /\ console[Len(console)] = "success"
ExporterThrew == calls # << >> /\ console # << >> /\ console[Len(console)] = "error: exporter"

\* Validation failed: input unset, type unset, type not one of the three, or
\* the input path not existing (the empty path never exists).
ValidationFailed ==
    /\ ~AsksForHelp
    /\ calls = << >>
    /\ \/ options.input = Undef
       \/ options.type = Undef
       \/ options.type \notin TheTypes
       \/ options.input = ""
       \/ probes = << [ path |-> options.input, result |-> FALSE ] >>

\* C3: a run that has exited has code 0 or 1; the code is 0 exactly when usage
\* was shown for help or empty arguments or the called exporter completed
\* without throwing, and 1 exactly when validation failed or the called
\* exporter threw.
C3_ExitCodes ==
    /\ exitCode \in { NoExit, 0, 1 }
    /\ Exited =>
        /\ exitCode = 0 <=>
              \/ AsksForHelp /\ console = << "usage" >>
              \/ ExporterCompleted
        /\ exitCode = 1 <=> (ValidationFailed \/ ExporterThrew)

\* A run that ended with code 1 because the exporter threw.
C3_Witness == exitCode = 1 /\ ExporterThrew /\ options.type = "medication"

----------------------------------------------------------------------------
(* C4 *)

ExporterOf(t) ==
    CASE t = "heart" -> "exportHeartRate"
      [] t = "sleep" -> "exportSleep"
      [] t = "medication" -> "exportMedication"

\* C4: a run that passed validation calls nothing before dispatch and, from
\* the call on, has made exactly one call: to the exporter of its type, with
\* (input, output, includeDailyTable) in that order; no second call follows a
\* throw.  [--type heart --input export.xml] calls exportHeartRate with
\* (export.xml, the heart default filename, true) and exits 0 on success.
C4_OneExporterOnce ==
    /\ Len(calls) <= 1
    /\ pc = "DISPATCH" => calls = << >>
    /\ pc \in { "AWAIT", "SUCCESS_EXIT" } \/ (pc = "FAILURE_EXIT" /\ probes # << >> /\ probes[1].result) =>
          calls = << [ fn |-> ExporterOf(options.type),
                       argv |-> << options.input, options.output,
                                   options.includeDailyTable >> ] >>
    /\ args = << "--type", "heart", "--input", "export.xml" >> /\ pc \in { "AWAIT", "SUCCESS_EXIT" } =>
          /\ calls = << [ fn |-> "exportHeartRate",
                          argv |-> << "export.xml", "herzfrequenz-bericht.pdf", TRUE >> ] >>
          /\ pc = "SUCCESS_EXIT" => exitCode = 0

\* The scenario of the claim, run to its successful end.
C4_Witness ==
    /\ args = << "--type", "heart", "--input", "export.xml" >>
    /\ pc = "SUCCESS_EXIT"
    /\ Len(calls) = 1

----------------------------------------------------------------------------
(* C5 *)

\* C5 as stated: the includeDailyTable passed to the exporter is false exactly
\* when the token --no-daily-table occurs anywhere in the argument list.
C5_AnywhereInList ==
    calls # << >> =>
        (calls[1].argv[3] = ~ \E k \in 1..Len(args) : args[k] = "--no-daily-table")

\* C5: the includeDailyTable passed to the exporter is false exactly when the
\* token --no-daily-table occurs at a position the parser reads as a flag,
\* that is, anywhere except directly after a value flag that takes it as its
\* value; otherwise it is true.
C5_DailyTableFlag ==
    calls # << >> =>
        (calls[1].argv[3] = ~ \E k \in ReadPositions : args[k] = "--no-daily-table")

\* An exporter was called without the daily table.
C5_Witness ==
    /\ calls # << >>
    /\ calls[1].argv[3] = FALSE
    /\ \E k \in 1..Len(args) : args[k] = "--no-daily-table"

----------------------------------------------------------------------------
(* C6 *)

C6_Defaults ==
    /\ \A t \in TheTypes : ~Absent(typeNames(t))
    /\ \A s, t \in TheTypes : s # t => typeNames(s) # typeNames(t)

\* The step that passes validation fills in the output; later steps keep it.
C6_Step ==
    /\ pc = "VALIDATE" /\ pc' = "DISPATCH" =>
          options'.output = IF Absent(options.output) THEN typeNames(options.type)
                            ELSE options.output
    /\ pc \in { "DISPATCH", "AWAIT" } => options' = options

\* C6: when validation passes with the output absent (not given by
\* --output/-o or a positional token, or given as the empty string) the output
\* becomes the fixed filename of the type, the three filenames being non-empty
\* and pairwise distinct; a non-empty output is kept unchanged; and the
\* exporter receives that output.
C6_DefaultOutput ==
    /\ [](C6_Defaults /\ (calls # << >> => calls[1].argv[2] = options.output))
    /\ [][C6_Step]_vars

\* The output was given as the empty string: the exporter was called with the
\* default filename of the type.
C6_Witness ==
    /\ args = << "--type", "sleep", "export.xml", "" >>
    /\ calls # << >>
    /\ calls[1].argv[2] = "schlaf-bericht.pdf"

----------------------------------------------------------------------------
(* C7 *)

\* The loop is about to read a token that is no recognized flag and does not
\* start with --.
AtPositional ==
    /\ pc = "PARSE"
    /\ i <= Len(args)
    /\ args[i] \notin ValueTokens \cup HelpTokens \cup { "--no-daily-table" }
    /\ ~StartsWithDashes(args[i])

\* With a valid --type and a single positional token, input is that token.
C7_SinglePositional ==
    \A t \in TheTypes, p \in Tokens :
        /\ p \notin ValueTokens \cup HelpTokens \cup { "--no-daily-table" }
        /\ ~StartsWithDashes(p)
        /\ args \in { << "--type", t, p >>, << p, "--type", t >> }
        /\ pc \notin { "START", "PARSE" }
        => options.input = p

\* C7 as stated: a positional token becomes input if input is unset, else
\* output if output is unset, else is dropped, and never overwrites an input
\* or output that is already set.
C7_NeverOverwritesSet ==
    /\ []C7_SinglePositional
    /\ [][AtPositional =>
            options' = IF options.input = Undef THEN [options EXCEPT !.input = args[i]]
                       ELSE IF options.output = Undef THEN [options EXCEPT !.output = args[i]]
                       ELSE options]_vars

\* C7: a positional token becomes input if input is unset or empty at that
\* point, else output if output is unset or empty, else is dropped; it never
\* overwrites a non-empty input or output; with a valid --type and a single
\* positional token, input is that token.
C7_PositionalFallback ==
    /\ []C7_SinglePositional
    /\ [][AtPositional =>
            options' = IF Absent(options.input) THEN [options EXCEPT !.input = args[i]]
                       ELSE IF Absent(options.output) THEN [options EXCEPT !.output = args[i]]
                       ELSE options]_vars

\* Three positional tokens were read: the first is input, the second output,
\* the third was dropped.
C7_Witness ==
    /\ pc = "VALIDATE"
    /\ \E k \in 1..Len(args) :
          /\ roles[k] = "dropped"
          /\ ~StartsWithDashes(args[k])
    /\ ~Absent(options.input)
    /\ ~Absent(options.output)

----------------------------------------------------------------------------
(* C8 *)

\* The run ended in a validation failure; which one.
FailedValidation == pc = "FAILURE_EXIT" /\ calls = << >>
InputMissing == Absent(options.input)
TypeMissing == ~InputMissing /\ Absent(options.type)
TypeInvalid == ~InputMissing /\ ~TypeMissing /\ options.type \notin TheTypes
InputNotFound == ~InputMissing /\ ~TypeMissing /\ ~TypeInvalid

\* C8 as stated: each of the four validation failures prints one error line,
\* then usage, then exits with code 1.
C8_AlwaysUsage ==
    FailedValidation =>
        /\ exitCode = 1
        /\ Len(console) = 2
        /\ console[1] \in ErrorLines
        /\ console[2] = "usage"

\* C8: every validation failure prints its error line first and exits with
\* code 1; usage follows the error line when input is unset or empty and when
\* type is unset or empty; when the type is not one of the three values and
\* when the input does not exist, the error line is all that is printed.
C8_FailureReports ==
    FailedValidation =>
        /\ exitCode = 1
        /\ InputMissing => console = << "error: --input is required", "usage" >>
        /\ TypeMissing => console = << "error: --type is required", "usage" >>
        /\ TypeInvalid => console = << "error: --type must be one of" >>
        /\ InputNotFound =>
              /\ console = << "error: Input file not found" >>
              /\ probes = << [ path |-> options.input, result |-> FALSE ] >>

\* A run failed because the type was never given, and printed usage.
C8_Witness ==
    /\ FailedValidation
    /\ TypeMissing
    /\ console = << "error: --type is required", "usage" >>

----------------------------------------------------------------------------
(* C9 *)

\* The state of the run's state machine; awaiting the exporter is part of
\* DISPATCH.
Phase == IF pc = "AWAIT" THEN "DISPATCH" ELSE pc

StatedEdges ==
    { << "START", "PARSE" >>, << "PARSE", "VALIDATE" >>, << "VALIDATE", "DISPATCH" >>,
      << "DISPATCH", "SUCCESS_EXIT" >>, << "DISPATCH", "FAILURE_EXIT" >>,
      << "START", "HELP_EXIT" >> }

\* A step stays in its state or follows one of the edges.
Follows(edges) == Phase' = Phase \/ << Phase, Phase' >> \in edges

\* The exits carry their codes, parsing touches no file, and the existence
\* probe is made at most once, after the whole list was parsed and input was
\* found set and type valid.
C9_ProbeLate ==
    /\ pc \in { "HELP_EXIT", "SUCCESS_EXIT" } => exitCode = 0
    /\ pc = "FAILURE_EXIT" => exitCode = 1
    /\ pc \in { "START", "PARSE", "HELP_EXIT" } => probes = << >>
    /\ Len(probes) <= 1
    /\ probes # << >> =>
          /\ i > Len(args)
          /\ \A k \in 1..Len(args) : roles[k] # "unread"
          /\ ~Absent(options.input)
          /\ options.type \in TheTypes
          /\ probes[1].path = options.input

\* C9 as stated: every run goes START, PARSE, VALIDATE, DISPATCH, then
\* SUCCESS_EXIT(0) or FAILURE_EXIT(1), or directly from START to HELP_EXIT(0).
C9_StatedMachine ==
    /\ []C9_ProbeLate
    /\ [][Follows(StatedEdges)]_vars

\* C9: every run goes START, PARSE, VALIDATE, DISPATCH, then SUCCESS_EXIT(0) or
\* FAILURE_EXIT(1), in that order with no state revisited, or from VALIDATE
\* straight to FAILURE_EXIT(1) when validation fails, or directly from START
\* to HELP_EXIT(0); parsing performs no file I/O, and the existence probe
\* happens at most once, only after the whole argument list was parsed and
\* input was found set and type one of the three values.
C9_StateMachine ==
    /\ []C9_ProbeLate
    /\ [][Follows(StatedEdges \cup { << "VALIDATE", "FAILURE_EXIT" >> })]_vars

\* A run that probed the file system, found the input missing and failed.
C9_Witness ==
    /\ pc = "FAILURE_EXIT"
    /\ Len(probes) = 1
    /\ ~probes[1].result
    /\ Len(args) = MaxArgs

----------------------------------------------------------------------------
(* C10 *)

FieldOf(tok) ==
    CASE tok \in { "--type", "-t" } -> "type"
      [] tok \in { "--input", "-i" } -> "input"
      [] tok \in { "--output", "-o" } -> "output"

\* The token after position k, undefined when k is the last position.
ValueAfter(k) == IF k < Len(args) THEN args[k + 1] ELSE Undef

\* The positions where the value flag of option f is read as a flag.
FlagPositions(f) == { k \in ReadPositions : args[k] \in ValueTokens /\ FieldOf(args[k]) = f }

LastOf(S) == CHOOSE k \in S : \A m \in S : m <= k

\* A positional token read after position k.
PositionalAfter(k) ==
    { args[m] : m \in { n \in ReadPositions : n > k /\ args[n] \notin ValueTokens } }

DefaultName(t) ==
    CASE t = "heart" -> "herzfrequenz-bericht.pdf"
      [] t = "sleep" -> "schlaf-bericht.pdf"
      [] t = "medication" -> "medikation-bericht.pdf"

\* Reading a value flag sets its option to the next token, whatever it is
\* (undefined past the end), touches nothing else and skips that token.
C10_Step ==
    pc = "PARSE" /\ i <= Len(args) /\ args[i] \in ValueTokens =>
        /\ options' = [options EXCEPT ![FieldOf(args[i])] = ValueAfter(i)]
        /\ i' = i + 2

C10_State ==
    \* the loop never stands on a consumed token, and a token is marked as a
    \* value exactly when it directly follows a value flag that was read
    /\ pc = "PARSE" /\ i <= Len(args) => roles[i] = "unread" /\ i \in ReadPositions
    /\ \A k \in 1..Len(args) :
          roles[k] # "unread" => (roles[k] = "value" <=> k \notin ReadPositions)
    \* when parsing is over, each option holds the value of the last
    \* occurrence of its flag (an absent value may be filled by a later
    \* positional token, never by an earlier occurrence)
    /\ pc = "VALIDATE" =>
          \A f \in { "type", "input", "output" } :
              FlagPositions(f) # {} =>
                  LET k == LastOf(FlagPositions(f))
                      v == ValueAfter(k)
                  IN  \/ options[f] = v
                      \/ /\ Absent(v)
                         /\ f # "type"
                         /\ options[f] \in PositionalAfter(k)
    \* a value flag read as the last token leaves its option unset
    /\ pc = "VALIDATE" /\ Len(args) > 0 /\ Len(args) \in ReadPositions
          /\ args[Len(args)] \in ValueTokens
          => options[FieldOf(args[Len(args)])] = Undef
    \* ... so a trailing --type or --input ends in a validation failure
    /\ Exited /\ Len(args) > 0 /\ Len(args) \in ReadPositions /\ ~AsksForHelp
          /\ args[Len(args)] \in { "--type", "-t", "--input", "-i" }
          => exitCode = 1 /\ calls = << >> /\ ErrorsPrinted # {}
    \* ... and a trailing --output falls back to the default filename
    /\ calls # << >> /\ Len(args) \in ReadPositions
          /\ args[Len(args)] \in { "--output", "-o" }
          => calls[1].argv[2] = DefaultName(options.type)

====
